---- MODULE Spec2Model ----
(***************************************************************************)
(* Model of src/src/metric.rs: a typed metric value (Metric<F>), its       *)
(* construction (Metric::new), merging (Metric::accumulate) and its        *)
(* capnp wire codec (fill_capnp / from_capnp).                             *)
(*                                                                         *)
(* F is instantiated at f64, as in the repository's tests                  *)
(* (type Float = f64).  A float is represented by an integer counting      *)
(* tenths: 10 is 1.0, 1 is 0.1, 19 is 1.9.  On the sample values and       *)
(* seeds drawn here, and up to MaxSamples = 3 merged samples, every sum    *)
(* and difference accumulate computes in f64 is the double nearest to the  *)
(* decimal result (1.0 - 0.1 is 0.9 and 1.0 + 0.9 is 1.9 in f64); NaN and  *)
(* infinities are not represented.  update_counter stays far below 2^32:   *)
(* the overflow of the u32 addition is outside the model.                  *)
(* An Option is a sequence of length 0 (None) or 1 (Some(x)).  A u64 set   *)
(* key is a tuple of four 16-bit limbs, most significant first.            *)
(***************************************************************************)
EXTENDS Integers, Sequences, FiniteSets, TLC

VARIABLES
    metrics,    \* slot -> Option<Metric>: the metrics alive in memory
    ctor,       \* slot -> Option<arguments of the Metric::new call that built the slot's metric>
    samples,    \* slot -> number of Metric::new-constructed samples folded into the slot's metric
    last,       \* the last new/accumulate call: its arguments and its result
    wire,       \* Option<record>: the encoded record in flight
    sent,       \* Option<Metric>: the metric the record on the wire was encoded from
    rmetric,    \* Option<Metric>: the metric decoded from the wire
    fold        \* merge order: the start aggregate, the incoming metrics merged so far, the
                \* aggregate before the last merge and the aggregate now

vars == <<metrics, ctor, samples, last, wire, sent, rmetric, fold>>

-----------------------------------------------------------------------------
(* Bounds of the model *)

\* total number of Metric::new samples alive in the slots at any time
MaxSamples == 3
\* number of incoming metrics of a merge-order experiment
MaxFold == 2

-----------------------------------------------------------------------------
(* Option<T> *)

None == <<>>
Some(x) == <<x>>
IsSome(o) == Len(o) = 1
Unwrap(o) == o[1]

-----------------------------------------------------------------------------
(* MetricType<F> *)

Counter == [kind |-> "Counter"]
DiffCounter(previous) == [kind |-> "DiffCounter", previous |-> previous]
Timer(agg) == [kind |-> "Timer", agg |-> agg]
Gauge(sign) == [kind |-> "Gauge", sign |-> sign]
Set(hs) == [kind |-> "Set", hs |-> hs]

\* MetricTypeName::from_metric: the variant kind of a metric
from_metric(m) == m.mtype.kind

-----------------------------------------------------------------------------
(* Scalar conversions for F = f64 *)

\* AsPrimitive<f64>::as_ on an f64
as_(value) == value

\* FromF64 for f64
from_f64(value) == value

RECURSIVE Pow2(_)
Pow2(n) == IF n = 0 THEN 1 ELSE 2 * Pow2(n - 1)

RECURSIVE Log2(_)
\* floor(log2(n)) for n >= 1
Log2(n) == IF n < 2 THEN 0 ELSE 1 + Log2(n \div 2)

\* a small unsigned integer as a u64
U64(n) == <<0, 0, 0, n>>

\* f64::to_bits of a whole number w/10 with |w/10| < 2^20: the IEEE-754
\* binary64 pattern, sign(1) exponent(11) fraction(52), as four 16-bit limbs
to_bits(w) ==
    LET n == IF w < 0 THEN (0 - w) \div 10 ELSE w \div 10
        s == IF w < 0 THEN 32768 ELSE 0
        e == Log2(n)
        top20 == (n - Pow2(e)) * Pow2(20 - e)
    IN IF n = 0 THEN <<s, 0, 0, 0>>
       ELSE <<s + (1023 + e) * 16 + top20 \div 65536, top20 % 65536, 0, 0>>

-----------------------------------------------------------------------------
(* Metric<F> *)

\* Metric::new
MetricNew(value, mtype, timestamp, sampling) ==
    LET metric == [value |-> value, mtype |-> mtype, timestamp |-> timestamp,
                   sampling |-> sampling, update_counter |-> 1]
        pushed == IF metric.mtype.kind = "Timer"
                  THEN [metric EXCEPT !.mtype.agg = Append(@, metric.value)]
                  ELSE metric
    IN IF pushed.mtype.kind = "Set"
       THEN [pushed EXCEPT !.mtype.hs = @ \cup {to_bits(as_(pushed.value))}]
       ELSE pushed

\* mutation of add_update_counter: counts the incoming metric as one sample
add_update_counter_one(self, new) ==
    [self EXCEPT !.update_counter = @ + 1]

\* self.update_counter += new.update_counter
add_update_counter(self, new) ==
    [self EXCEPT !.update_counter = @ + new.update_counter]

\* mutation of counter_arm: the incoming value replaces the sum
counter_arm_replace(self, new) ==
    [metric |-> [self EXCEPT !.value = new.value], res |-> "Ok"]

\* the arm (Counter, Counter)
counter_arm(self, new) ==
    [metric |-> [self EXCEPT !.value = @ + new.value], res |-> "Ok"]

\* mutation of diff_counter_arm: a reading equal to the previous one adds nothing
diff_counter_arm_ge(self, new) ==
    LET prev == self.mtype.previous
        diff == IF new.value >= prev THEN new.value - prev ELSE new.value
    IN [metric |-> [self EXCEPT !.mtype.previous = new.value, !.value = @ + diff],
        res |-> "Ok"]

\* mutation of diff_counter_arm: the previous reading is taken from the incoming metric
diff_counter_arm_previous(self, new) ==
    LET prev == self.mtype.previous
        diff == IF new.value > prev THEN new.value - prev ELSE new.value
    IN [metric |-> [self EXCEPT !.mtype.previous = new.mtype.previous, !.value = @ + diff],
        res |-> "Ok"]

\* the arm (DiffCounter(previous), DiffCounter(_))
diff_counter_arm(self, new) ==
    LET prev == self.mtype.previous
        diff == IF new.value > prev THEN new.value - prev ELSE new.value
    IN [metric |-> [self EXCEPT !.mtype.previous = new.value, !.value = @ + diff],
        res |-> "Ok"]

\* mutation of gauge_arm: any other direction counts as an increment
gauge_arm_lenient(self, new) ==
    CASE new.mtype.sign = Some(-1) ->
           [metric |-> [self EXCEPT !.value = @ - new.value], res |-> "Ok"]
      [] new.mtype.sign = None ->
           [metric |-> [self EXCEPT !.value = new.value], res |-> "Ok"]
      [] OTHER ->
           [metric |-> [self EXCEPT !.value = @ + new.value], res |-> "Ok"]

\* mutation of gauge_arm: self takes over the direction of the incoming metric
gauge_arm_adopt(self, new) ==
    CASE new.mtype.sign = Some(1) ->
           [metric |-> [self EXCEPT !.value = @ + new.value, !.mtype = new.mtype],
            res |-> "Ok"]
      [] new.mtype.sign = Some(-1) ->
           [metric |-> [self EXCEPT !.value = @ - new.value, !.mtype = new.mtype],
            res |-> "Ok"]
      [] new.mtype.sign = None ->
           [metric |-> [self EXCEPT !.value = new.value, !.mtype = new.mtype],
            res |-> "Ok"]
      [] OTHER ->
           [metric |-> self, res |-> "Aggregating"]

\* the four arms (Gauge(_), Gauge(sign)), in the order the match tries them
gauge_arm(self, new) ==
    CASE new.mtype.sign = Some(1) ->
           [metric |-> [self EXCEPT !.value = @ + new.value], res |-> "Ok"]
      [] new.mtype.sign = Some(-1) ->
           [metric |-> [self EXCEPT !.value = @ - new.value], res |-> "Ok"]
      [] new.mtype.sign = None ->
           [metric |-> [self EXCEPT !.value = new.value], res |-> "Ok"]
      [] OTHER ->
           [metric |-> self, res |-> "Aggregating"]

\* mutation of timer_arm: the incoming sequence goes in front
timer_arm_prepend(self, new) ==
    [metric |-> [self EXCEPT !.value = new.value, !.mtype.agg = new.mtype.agg \o @],
     res |-> "Ok"]

\* the arm (Timer(agg), Timer(agg2))
timer_arm(self, new) ==
    [metric |-> [self EXCEPT !.value = new.value, !.mtype.agg = @ \o new.mtype.agg],
     res |-> "Ok"]

\* mutation of set_arm: the incoming set replaces the set of self
set_arm_replace(self, new) ==
    [metric |-> [self EXCEPT !.mtype.hs = new.mtype.hs], res |-> "Ok"]

\* the arm (Set(hs), Set(hs2))
set_arm(self, new) ==
    [metric |-> [self EXCEPT !.mtype.hs = @ \cup new.mtype.hs], res |-> "Ok"]

\* the arm (_m1, _m2)
mismatch_arm(self, new) ==
    [metric |-> self, res |-> "Aggregating"]

\* Metric::accumulate: the metric self becomes, and the call's result
accumulate(self, new) ==
    LET counted == add_update_counter(self, new)
        sk == self.mtype.kind
        nk == new.mtype.kind
    IN CASE sk = "Counter" /\ nk = "Counter" -> counter_arm(counted, new)
         [] sk = "DiffCounter" /\ nk = "DiffCounter" -> diff_counter_arm(counted, new)
         [] sk = "Gauge" /\ nk = "Gauge" -> gauge_arm(counted, new)
         [] sk = "Timer" /\ nk = "Timer" -> timer_arm(counted, new)
         [] sk = "Set" /\ nk = "Set" -> set_arm(counted, new)
         [] OTHER -> mismatch_arm(counted, new)

-----------------------------------------------------------------------------
(* Wire codec: the capnp record of a metric (protocol_capnp::metric) is     *)
(*   [value, type, timestamp : Option<u64>,                                 *)
(*    meta : NullMeta, StructMeta(sampling, update_counter), InvalidMeta]   *)
(* with type one of [which |-> "counter"], [which |-> "diffCounter", c],    *)
(* [which |-> "gauge", gauge |-> [which |-> "unsigned"] or                  *)
(* [which |-> "signed", sign]], [which |-> "timer", list],                  *)
(* [which |-> "set", list].                                                 *)

Range(list) == {list[i] : i \in 1..Len(list)}

RECURSIVE Orders(_)
\* the sequences a HashSet's iterator can yield: every order of its members
Orders(hs) ==
    IF hs = {} THEN {<<>>}
    ELSE UNION {{<<k>> \o rest : rest \in Orders(hs \ {k})} : k \in hs}

\* fill_capnp, the type union: order is the sequence v.iter() yields for a Set
fill_type(mtype, order) ==
    CASE mtype.kind = "Counter" -> [which |-> "counter"]
      [] mtype.kind = "DiffCounter" -> [which |-> "diffCounter", c |-> as_(mtype.previous)]
      [] mtype.kind = "Gauge" ->
           [which |-> "gauge",
            gauge |-> IF IsSome(mtype.sign)
                      THEN [which |-> "signed", sign |-> Unwrap(mtype.sign)]
                      ELSE [which |-> "unsigned"]]
      [] mtype.kind = "Timer" ->
           [which |-> "timer",
            list |-> [idx \in 1..Len(mtype.agg) |-> as_(mtype.agg[idx])]]
      [] mtype.kind = "Set" ->
           [which |-> "set",
            list |-> [idx \in 1..Cardinality(mtype.hs) |-> order[idx]]]

\* fill_capnp, the timestamp: set only when the metric has one
fill_timestamp(self) ==
    IF IsSome(self.timestamp) THEN Some(Unwrap(self.timestamp)) ELSE None

\* the meta pointer of a record: null (the record carries no meta group), a
\* MetricMeta struct, or a pointer that cannot be read as a struct
NullMeta == [ptr |-> "null"]
StructMeta(sampling, update_counter) ==
    [ptr |-> "struct", sampling |-> sampling, update_counter |-> update_counter]
InvalidMeta == [ptr |-> "invalid"]

\* fill_capnp, the meta group: always initialised, sampling only when present
fill_meta(self) ==
    StructMeta(IF IsSome(self.sampling) THEN Some(Unwrap(self.sampling)) ELSE None,
               self.update_counter)

\* Metric::fill_capnp
fill_capnp(self, order) ==
    [value |-> as_(self.value),
     type |-> fill_type(self.mtype, order),
     timestamp |-> fill_timestamp(self),
     meta |-> fill_meta(self)]

\* Metric::as_capnp_heap
as_capnp_heap(self, order) == fill_capnp(self, order)

\* capnp::Result
Ok(reader) == [ok |-> TRUE, reader |-> reader]
Err == [ok |-> FALSE]

\* cmetric::Reader::get_meta: a struct pointer gives a reader of that struct; a
\* null pointer gives a reader of the default struct, in which no sampling is
\* set and update_counter reads 0; a pointer that is no struct pointer gives Err
get_meta(reader) ==
    CASE reader.meta.ptr = "struct" ->
           Ok([sampling |-> reader.meta.sampling,
               update_counter |-> reader.meta.update_counter])
      [] reader.meta.ptr = "null" -> Ok([sampling |-> None, update_counter |-> 0])
      [] reader.meta.ptr = "invalid" -> Err

\* from_capnp, the type union
read_type(t) ==
    CASE t.which = "counter" -> Counter
      [] t.which = "diffCounter" -> DiffCounter(from_f64(t.c))
      [] t.which = "gauge" ->
           IF t.gauge.which = "unsigned"
           THEN Gauge(None)
           ELSE Gauge(Some(t.gauge.sign))
      [] t.which = "timer" -> Timer([i \in 1..Len(t.list) |-> from_f64(t.list[i])])
      [] t.which = "set" -> Set(Range(t.list))

\* from_capnp, the timestamp
read_timestamp(reader) ==
    IF IsSome(reader.timestamp) THEN Some(Unwrap(reader.timestamp)) ELSE None

\* from_capnp, the pair (sampling, up_counter) read from the meta group
read_meta(reader) ==
    LET meta == get_meta(reader)
    IN IF meta.ok
       THEN [sampling |-> IF IsSome(meta.reader.sampling)
                          THEN Some(Unwrap(meta.reader.sampling))
                          ELSE None,
             up_counter |-> Some(meta.reader.update_counter)]
       ELSE [sampling |-> None, up_counter |-> None]

\* mutation of decoded_metric: the metric is built by Metric::new
decoded_metric_new(value, mtype, timestamp, sampling, up_counter) ==
    [MetricNew(value, mtype, timestamp, sampling)
        EXCEPT !.update_counter = IF IsSome(up_counter) THEN Unwrap(up_counter) ELSE 1]

\* from_capnp, the struct literal: the metric is not built by Metric::new
decoded_metric(value, mtype, timestamp, sampling, up_counter) ==
    [value |-> value,
     mtype |-> mtype,
     timestamp |-> timestamp,
     sampling |-> sampling,
     update_counter |-> IF IsSome(up_counter) THEN Unwrap(up_counter) ELSE 1]

\* Metric::from_capnp (the metric of the returned pair; the name is not modelled)
from_capnp(reader) ==
    LET value == from_f64(reader.value)
        mtype == read_type(reader.type)
        timestamp == read_timestamp(reader)
        meta == read_meta(reader)
    IN decoded_metric(value, mtype, timestamp, meta.sampling, meta.up_counter)

-----------------------------------------------------------------------------
(* Inputs *)

Slots == {1, 2}

\* 1.0 and 2.0
Values == {10, 20}

\* 0.1 and 0.5
Previous == {1, 5}

\* None, +1, -1 and a direction that is not valid
Signs == {None, Some(1), Some(-1), Some(2)}

TimerSeeds == {<<>>, <<30>>}

SetSeeds == {{U64(10), U64(20)}, {U64(10), U64(30)}}

MTypes ==
    {Counter}
    \cup {DiffCounter(p) : p \in Previous}
    \cup {Gauge(s) : s \in Signs}
    \cup {Timer(v) : v \in TimerSeeds}
    \cup {Set(hs) : hs \in SetSeeds}

Timestamps == {None, Some(10)}

\* None and 0.1
Samplings == {None, Some(1)}

\* the (timestamp, sampling) pairs of the samples of a slot: every combination of
\* present and absent in slot 1; in slot 2 both absent, or both present with
\* values (20, 0.5) that slot 1 never holds
Envelopes(i) ==
    IF i = 1
    THEN Timestamps \X Samplings
    ELSE {<<None, None>>, <<Some(20), Some(5)>>}

\* records a peer can send: every type arm, with and without timestamp and meta
WireTypes ==
    {[which |-> "counter"],
     [which |-> "diffCounter", c |-> 5],
     [which |-> "gauge", gauge |-> [which |-> "unsigned"]],
     [which |-> "gauge", gauge |-> [which |-> "signed", sign |-> -1]],
     [which |-> "timer", list |-> <<10, 30, 10>>],
     [which |-> "set", list |-> <<U64(30), U64(10)>>]}

WireMetas ==
    {NullMeta, InvalidMeta}
    \cup {StructMeta(s, c) : s \in Samplings, c \in {0, 1, 7}}

WireRecords ==
    {[value |-> v, type |-> t, timestamp |-> ts, meta |-> m] :
        v \in {0, 19}, t \in WireTypes, ts \in Timestamps, m \in WireMetas}

-----------------------------------------------------------------------------
(* The aggregation window and the codec *)

NoCall == [op |-> "none"]

NoFold == [start |-> None, xs |-> <<>>, before |-> None, agg |-> None]

Live(i) == IF IsSome(metrics[i]) THEN samples[i] ELSE 0

Idle == wire = None /\ rmetric = None

Init ==
    /\ metrics = [i \in Slots |-> None]
    /\ ctor = [i \in Slots |-> None]
    /\ samples = [i \in Slots |-> 0]
    /\ last = NoCall
    /\ wire = None
    /\ sent = None
    /\ rmetric = None
    /\ fold = NoFold

\* a raw sample arrives and becomes a fresh metric in an empty slot
New(i, value, mtype, timestamp, sampling) ==
    /\ Idle
    /\ metrics[i] = None
    /\ Live(1) + Live(2) < MaxSamples
    /\ metrics' = [metrics EXCEPT ![i] = Some(MetricNew(value, mtype, timestamp, sampling))]
    /\ ctor' = [ctor EXCEPT ![i] = Some([value |-> value, mtype |-> mtype])]
    /\ samples' = [samples EXCEPT ![i] = 1]
    /\ last' = [op |-> "new", slot |-> i, value |-> value, mtype |-> mtype,
                timestamp |-> timestamp, sampling |-> sampling]
    /\ UNCHANGED <<wire, sent, rmetric, fold>>

\* metrics[i].accumulate(metrics[j]): the incoming metric is moved into the call
Accumulate(i, j) ==
    /\ Idle
    /\ i # j
    /\ IsSome(metrics[i])
    /\ IsSome(metrics[j])
    /\ LET self == Unwrap(metrics[i])
           new == Unwrap(metrics[j])
           r == accumulate(self, new)
       IN /\ metrics' = [metrics EXCEPT ![i] = Some(r.metric), ![j] = None]
          /\ last' = [op |-> "accumulate", slot |-> i, self |-> self, new |-> new,
                      res |-> r.res,
                      self_ctor |-> Unwrap(ctor[i]), new_ctor |-> Unwrap(ctor[j]),
                      self_samples |-> samples[i], new_samples |-> samples[j]]
    /\ ctor' = [ctor EXCEPT ![j] = None]
    /\ samples' = [samples EXCEPT ![i] = samples[i] + samples[j], ![j] = 0]
    /\ UNCHANGED <<wire, sent, rmetric, fold>>

\* flush: the metric of slot i is passed to tests::capnp_test once no incoming
\* metric is pending, and encoded (tests::capnp_test, first half)
Encode(i) ==
    /\ Idle
    /\ IsSome(metrics[i])
    /\ \A j \in Slots \ {i} : metrics[j] = None
    /\ last' = [op |-> "as_capnp_heap", slot |-> i]
    /\ LET m == Unwrap(metrics[i])
       IN \E order \in (IF m.mtype.kind = "Set" THEN Orders(m.mtype.hs) ELSE {<<>>}) :
            /\ wire' = Some(as_capnp_heap(m, order))
            /\ sent' = Some(m)
    /\ UNCHANGED <<metrics, ctor, samples, rmetric, fold>>

\* a record encoded by a peer arrives at a node whose table is empty
Receive(reader) ==
    /\ Idle
    /\ \A i \in Slots : metrics[i] = None
    /\ wire' = Some(reader)
    /\ sent' = None
    /\ UNCHANGED <<metrics, ctor, samples, last, rmetric, fold>>

\* the record on the wire is decoded (tests::capnp_test, second half)
Decode ==
    /\ IsSome(wire)
    /\ rmetric = None
    /\ rmetric' = Some(from_capnp(Unwrap(wire)))
    /\ UNCHANGED <<metrics, ctor, samples, last, wire, sent, fold>>

\* end of tests::capnp_test: the buffer, the decoded metric and the metric that
\* was passed by value are dropped
Drop ==
    /\ IsSome(rmetric)
    /\ wire' = None
    /\ sent' = None
    /\ rmetric' = None
    /\ metrics' = [i \in Slots |-> None]
    /\ ctor' = [i \in Slots |-> None]
    /\ samples' = [i \in Slots |-> 0]
    /\ UNCHANGED <<last, fold>>

Next ==
    \/ \E i \in Slots, value \in Values, mtype \in MTypes :
         \E envelope \in Envelopes(i) :
            New(i, value, mtype, envelope[1], envelope[2])
    \/ \E i \in Slots, j \in Slots : Accumulate(i, j)
    \/ \E i \in Slots : Encode(i)
    \/ \E reader \in WireRecords : Receive(reader)
    \/ Decode
    \/ Drop

Spec == Init /\ [][Next]_vars

-----------------------------------------------------------------------------
(* Merge order: one aggregate and the incoming metrics folded into it *)

\* fresh metrics, as Metric::new builds them from the sample inputs
FoldMetrics == {MetricNew(value, mtype, None, None) : value \in Values, mtype \in MTypes}

RECURSIVE FoldAll(_, _)
\* the aggregate after self.accumulate(x) for each x of xs in turn, the results ignored
FoldAll(self, xs) ==
    IF xs = <<>> THEN self
    ELSE FoldAll(accumulate(self, Head(xs)).metric, Tail(xs))

\* every order in which the metrics of xs can arrive
Arrivals(xs) ==
    {[i \in 1..Len(xs) |-> xs[p[i]]] : p \in Orders(1..Len(xs))}

InitFold ==
    /\ metrics = [i \in Slots |-> None]
    /\ ctor = [i \in Slots |-> None]
    /\ samples = [i \in Slots |-> 0]
    /\ last = NoCall
    /\ wire = None
    /\ sent = None
    /\ rmetric = None
    /\ \E start \in FoldMetrics :
         fold = [start |-> Some(start), xs |-> <<>>, before |-> None, agg |-> Some(start)]

\* the next incoming metric is merged into the aggregate
Offer(new) ==
    /\ Len(fold.xs) < MaxFold
    /\ fold' = [fold EXCEPT !.xs = Append(@, new),
                            !.before = fold.agg,
                            !.agg = Some(accumulate(Unwrap(fold.agg), new).metric)]
    /\ UNCHANGED <<metrics, ctor, samples, last, wire, sent, rmetric>>

NextFold == \E new \in FoldMetrics : Offer(new)

SpecFold == InitFold /\ [][NextFold]_vars

-----------------------------------------------------------------------------
(* Properties *)

\* the metric the last accumulate call left in self
After == Unwrap(metrics[last.slot])

\* the last call was accumulate on two metrics of different variant kinds
Mismatched == last.self.mtype.kind # last.new.mtype.kind

\* the last call was accumulate on two Gauges, the incoming direction not None, +1 or -1
BadDirection ==
    /\ last.self.mtype.kind = "Gauge"
    /\ last.new.mtype.kind = "Gauge"
    /\ IsSome(last.new.mtype.sign)
    /\ Unwrap(last.new.mtype.sign) \notin {1, -1}

\* C1: decoding the record a metric was encoded to gives a metric equal to it in
\* value, mtype (every Timer element in order, every Set key, the DiffCounter
\* previous reading), timestamp, update_counter and sampling, for every metric
\* built by Metric::new and accumulate calls.
RoundTrip ==
    (IsSome(rmetric) /\ IsSome(sent)) =>
        /\ Unwrap(rmetric).value = Unwrap(sent).value
        /\ Unwrap(rmetric).mtype = Unwrap(sent).mtype
        /\ Unwrap(rmetric).timestamp = Unwrap(sent).timestamp
        /\ Unwrap(rmetric).update_counter = Unwrap(sent).update_counter
        /\ Unwrap(rmetric).sampling = Unwrap(sent).sampling
        /\ Unwrap(rmetric) = Unwrap(sent)

\* a merged Timer of three elements, with timestamp and sampling, went through the codec
RoundTripWitness ==
    /\ IsSome(rmetric)
    /\ IsSome(sent)
    /\ Unwrap(sent).mtype.kind = "Timer"
    /\ Len(Unwrap(sent).mtype.agg) = 3
    /\ Unwrap(sent).update_counter = 2
    /\ IsSome(Unwrap(sent).timestamp)
    /\ IsSome(Unwrap(sent).sampling)
    /\ Unwrap(rmetric).mtype.agg = Unwrap(sent).mtype.agg

\* C2: accumulate returns Aggregating exactly when the variant kinds differ or
\* both are Gauge and the incoming direction is Some(n) with n not -1 or +1; a
\* rejected call leaves value, mtype, timestamp and sampling of self as they
\* were and adds new.update_counter to self.update_counter; every other call
\* returns Ok.
RejectedMerges ==
    last.op = "accumulate" =>
        IF Mismatched \/ BadDirection
        THEN /\ last.res = "Aggregating"
             /\ After.value = last.self.value
             /\ After.mtype = last.self.mtype
             /\ After.timestamp = last.self.timestamp
             /\ After.sampling = last.self.sampling
             /\ After.update_counter = last.self.update_counter + last.new.update_counter
        ELSE last.res = "Ok"

\* a Gauge rejected an incoming Gauge with direction 2 that carried two samples
RejectedMergesWitness ==
    /\ last.op = "accumulate"
    /\ BadDirection
    /\ last.res = "Aggregating"
    /\ last.new.update_counter = 2
    /\ After.update_counter = 3

\* C3: Metric::new yields update_counter 1, and after any accumulate calls,
\* successful or rejected, update_counter is at least 1 and is the number of
\* Metric::new samples folded into the metric.
UpdateCounterAccounting ==
    /\ last.op = "new" => Unwrap(metrics[last.slot]).update_counter = 1
    /\ \A i \in Slots :
         IsSome(metrics[i]) =>
            /\ Unwrap(metrics[i]).update_counter >= 1
            /\ Unwrap(metrics[i]).update_counter = samples[i]

\* three samples are in one metric, two of them arrived in one rejected merge
UpdateCounterWitness ==
    /\ last.op = "accumulate"
    /\ last.res = "Aggregating"
    /\ last.new_samples = 2
    /\ samples[last.slot] = 3
    /\ After.update_counter = 3

\* C5: the variant kind of a metric is the one it was constructed with, and so
\* is the stored direction of a Gauge, whatever was accumulated into it.
VariantStability ==
    \A i \in Slots :
        IsSome(metrics[i]) =>
            /\ Unwrap(metrics[i]).mtype.kind = Unwrap(ctor[i]).mtype.kind
            /\ Unwrap(metrics[i]).mtype.kind = "Gauge" =>
                  Unwrap(metrics[i]).mtype.sign = Unwrap(ctor[i]).mtype.sign

\* a Gauge built with direction -1 has merged an absolute Gauge and kept its direction
VariantStabilityWitness ==
    /\ last.op = "accumulate"
    /\ last.res = "Ok"
    /\ last.self_ctor.mtype = Gauge(Some(-1))
    /\ last.new.mtype = Gauge(None)
    /\ After.mtype = Gauge(Some(-1))
    /\ samples[last.slot] = 3

\* C6: decoding a record without a meta group gives update_counter 1 and
\* sampling None; with a meta group, the transmitted update_counter and the
\* transmitted sampling, None when it is absent.
DecodeDefaults ==
    IsSome(rmetric) =>
        /\ Unwrap(wire).meta = NullMeta =>
              /\ Unwrap(rmetric).update_counter = 1
              /\ Unwrap(rmetric).sampling = None
        /\ Unwrap(wire).meta.ptr = "struct" =>
              /\ Unwrap(rmetric).update_counter = Unwrap(wire).meta.update_counter
              /\ Unwrap(rmetric).sampling = Unwrap(wire).meta.sampling

\* a record without a meta group, with value 1.9 and a timestamp, was decoded
\* to a metric whose update_counter is 0
DecodeDefaultsWitness ==
    /\ IsSome(rmetric)
    /\ Unwrap(wire).meta = NullMeta
    /\ Unwrap(wire).value = 19
    /\ IsSome(Unwrap(wire).timestamp)
    /\ Unwrap(rmetric).update_counter = 0
    /\ Unwrap(rmetric).sampling = None

\* what from_capnp does with the meta pointer: a meta struct gives the
\* transmitted update_counter and sampling, a null pointer update_counter 0 and
\* no sampling, a pointer get_meta cannot read update_counter 1 and no sampling
DecodeMeta ==
    IsSome(rmetric) =>
        LET meta == Unwrap(wire).meta
            m == Unwrap(rmetric)
        IN /\ meta.ptr = "struct" =>
                m.update_counter = meta.update_counter /\ m.sampling = meta.sampling
           /\ meta.ptr = "null" => m.update_counter = 0 /\ m.sampling = None
           /\ meta.ptr = "invalid" => m.update_counter = 1 /\ m.sampling = None

\* both metrics of the last accumulate call came straight from Metric::new
BothFresh == last.self_samples = 1 /\ last.new_samples = 1

\* the last call merged two metrics of variant kind k
Merged(k) ==
    /\ last.op = "accumulate"
    /\ last.self.mtype.kind = k
    /\ last.new.mtype.kind = k

\* C7 as stated: after a merge of two Sets built by Metric::new from the seed
\* sets A and B, the set of self is exactly A union B (Set({10,20}) with
\* Set({10,30}) gives {10,20,30}, of size 3), and self.value is unchanged.
SetMergeAsStated ==
    (Merged("Set") /\ BothFresh) =>
        /\ After.mtype.hs = last.self_ctor.mtype.hs \cup last.new_ctor.mtype.hs
        /\ After.value = last.self.value
        /\ (/\ last.self_ctor.mtype.hs = {U64(10), U64(20)}
            /\ last.new_ctor.mtype.hs = {U64(10), U64(30)})
              => /\ After.mtype.hs = {U64(10), U64(20), U64(30)}
                 /\ Cardinality(After.mtype.hs) = 3

\* C7 amended: after a merge of two Sets built by Metric::new from the seed sets
\* A and B and the sample values a and b, the set of self is exactly A union B
\* together with the bit patterns of a and b that Metric::new inserted
\* (Set({10,20}) of value 1 with Set({10,30}) of value 2 gives the five keys
\* 10, 20, 30, bits(1.0), bits(2.0)); any Set merge leaves in self the union of
\* the two sets, and self.value is unchanged.
SetMerge ==
    Merged("Set") =>
        /\ After.mtype.hs = last.self.mtype.hs \cup last.new.mtype.hs
        /\ After.value = last.self.value
        /\ BothFresh =>
              /\ After.mtype.hs =
                    last.self_ctor.mtype.hs \cup {to_bits(last.self_ctor.value)}
                    \cup last.new_ctor.mtype.hs \cup {to_bits(last.new_ctor.value)}
              /\ (/\ last.self_ctor.mtype.hs = {U64(10), U64(20)}
                  /\ last.new_ctor.mtype.hs = {U64(10), U64(30)}
                  /\ last.self_ctor.value = 10
                  /\ last.new_ctor.value = 20)
                    => /\ After.mtype.hs = {U64(10), U64(20), U64(30),
                                            <<16368, 0, 0, 0>>, <<16384, 0, 0, 0>>}
                       /\ Cardinality(After.mtype.hs) = 5

\* Set({10,20}) of value 1 has merged Set({10,30}) of value 2
SetMergeWitness ==
    /\ Merged("Set")
    /\ BothFresh
    /\ last.self_ctor = [value |-> 10, mtype |-> Set({U64(10), U64(20)})]
    /\ last.new_ctor = [value |-> 20, mtype |-> Set({U64(10), U64(30)})]
    /\ Cardinality(After.mtype.hs) = 5
    /\ After.value = 10

\* C8 as stated: a Timer merge leaves in self its sequence followed by the
\* incoming one, of the summed length, and the incoming value; and
\* Metric::new(1, Timer([])) merged with Metric::new(2, Timer([3])) holds
\* [1, 2, 3] and value 2.
TimerMergeAsStated ==
    Merged("Timer") =>
        /\ After.mtype.agg = last.self.mtype.agg \o last.new.mtype.agg
        /\ Len(After.mtype.agg) = Len(last.self.mtype.agg) + Len(last.new.mtype.agg)
        /\ After.value = last.new.value
        /\ (/\ BothFresh
            /\ last.self_ctor = [value |-> 10, mtype |-> Timer(<<>>)]
            /\ last.new_ctor = [value |-> 20, mtype |-> Timer(<<30>>)])
              => /\ After.mtype.agg = <<10, 20, 30>>
                 /\ After.value = 20

\* C8 amended: a Timer merge leaves in self its sequence followed by the
\* incoming one, of the summed length, and the incoming value; Metric::new
\* appends the sample value after the seed elements, so that
\* Metric::new(1, Timer([])) merged with Metric::new(2, Timer([3])) holds the
\* three elements [1, 3, 2] and value 2.
TimerMerge ==
    Merged("Timer") =>
        /\ After.mtype.agg = last.self.mtype.agg \o last.new.mtype.agg
        /\ Len(After.mtype.agg) = Len(last.self.mtype.agg) + Len(last.new.mtype.agg)
        /\ After.value = last.new.value
        /\ BothFresh =>
              /\ After.mtype.agg =
                    Append(last.self_ctor.mtype.agg, last.self_ctor.value)
                    \o Append(last.new_ctor.mtype.agg, last.new_ctor.value)
              /\ (/\ last.self_ctor = [value |-> 10, mtype |-> Timer(<<>>)]
                  /\ last.new_ctor = [value |-> 20, mtype |-> Timer(<<30>>)])
                    => /\ After.mtype.agg = <<10, 30, 20>>
                       /\ After.value = 20

\* Metric::new(1, Timer([])) has merged Metric::new(2, Timer([3]))
TimerMergeWitness ==
    /\ Merged("Timer")
    /\ BothFresh
    /\ last.self_ctor = [value |-> 10, mtype |-> Timer(<<>>)]
    /\ last.new_ctor = [value |-> 20, mtype |-> Timer(<<30>>)]
    /\ Len(After.mtype.agg) = 3
    /\ After.value = 20

\* C10 as stated: Metric::new(1, DiffCounter(0.1)) after merging
\* Metric::new(1, DiffCounter(0.5)) has previous reading 0.5 and value 1.9, and
\* after any DiffCounter merge the previous reading of self is the stored
\* previous reading of the incoming metric.
DiffCounterScenarioAsStated ==
    Merged("DiffCounter") =>
        /\ After.mtype.previous = last.new.mtype.previous
        /\ (/\ BothFresh
            /\ last.self_ctor = [value |-> 10, mtype |-> DiffCounter(1)]
            /\ last.new_ctor = [value |-> 10, mtype |-> DiffCounter(5)])
              => /\ After.mtype.previous = 5
                 /\ After.value = 19

\* C10 amended: Metric::new(1, DiffCounter(0.1)) after merging
\* Metric::new(1, DiffCounter(0.5)) has previous reading 1 (the value of the
\* incoming metric) and value 1.9, and after any DiffCounter merge the previous
\* reading of self is the value of the incoming metric.
DiffCounterScenario ==
    Merged("DiffCounter") =>
        /\ After.mtype.previous = last.new.value
        /\ (/\ BothFresh
            /\ last.self_ctor = [value |-> 10, mtype |-> DiffCounter(1)]
            /\ last.new_ctor = [value |-> 10, mtype |-> DiffCounter(5)])
              => /\ After.mtype.previous = 10
                 /\ After.value = 19

\* Metric::new(1, DiffCounter(0.1)) has merged Metric::new(1, DiffCounter(0.5))
DiffCounterScenarioWitness ==
    /\ Merged("DiffCounter")
    /\ BothFresh
    /\ last.self_ctor = [value |-> 10, mtype |-> DiffCounter(1)]
    /\ last.new_ctor = [value |-> 10, mtype |-> DiffCounter(5)]
    /\ After.value = 19

-----------------------------------------------------------------------------
(* Properties of the merge order (SpecFold) *)

Start == Unwrap(fold.start)

Agg == Unwrap(fold.agg)

\* the number of elements of seq equal to v
Count(seq, v) == Cardinality({i \in 1..Len(seq) : seq[i] = v})

\* two metrics agree in value, in the auxiliary state of mtype and in update_counter
SameAggregate(a, b) ==
    /\ a.value = b.value
    /\ a.mtype = b.mtype
    /\ a.update_counter = b.update_counter

\* no incoming metric is an absolute Gauge
NoAbsoluteGauge == \A i \in 1..Len(fold.xs) : fold.xs[i].mtype # Gauge(None)

\* C4 as stated: for Counter, Gauge, Timer and Set the final aggregate is the
\* same in whatever order the incoming metrics are merged; only DiffCounter
\* depends on the order.
OrderIndependenceAsStated ==
    Start.mtype.kind # "DiffCounter" =>
        \A ys \in Arrivals(fold.xs) : SameAggregate(FoldAll(Start, ys), Agg)

\* C4 amended: the final aggregate is the same in whatever order the incoming
\* metrics are merged for Counter and Set, and for Gauge when no incoming
\* metric is an absolute Gauge (direction None); update_counter is
\* order-independent for every variant; a Timer holds the same elements in
\* every order, but their sequence and the final value depend on the order.
OrderIndependence ==
    \A ys \in Arrivals(fold.xs) :
        LET other == FoldAll(Start, ys)
        IN /\ other.update_counter = Agg.update_counter
           /\ other.mtype.kind = Agg.mtype.kind
           /\ Start.mtype.kind \in {"Counter", "Set"} => SameAggregate(other, Agg)
           /\ (Start.mtype.kind = "Gauge" /\ NoAbsoluteGauge) => SameAggregate(other, Agg)
           /\ Start.mtype.kind = "Timer" =>
                 /\ Len(other.mtype.agg) = Len(Agg.mtype.agg)
                 /\ \A v \in Range(Agg.mtype.agg) :
                       Count(other.mtype.agg, v) = Count(Agg.mtype.agg, v)

\* a Counter has merged two Counters of different values
OrderIndependenceWitness ==
    /\ Len(fold.xs) = 2
    /\ Start.mtype.kind = "Counter"
    /\ fold.xs[1].mtype.kind = "Counter"
    /\ fold.xs[2].mtype.kind = "Counter"
    /\ fold.xs[1].value # fold.xs[2].value
    /\ Agg.value = Start.value + 30
    /\ Agg.update_counter = 3

\* the reading r added to the value v of a DiffCounter whose previous reading is prev
DiffValue(v, prev, r) == IF r > prev THEN v + (r - prev) ELSE v + r

\* the readings of xs are DiffCounter readings, strictly increasing, all above prev
Increasing(prev, xs) ==
    \A i \in 1..Len(xs) :
        /\ xs[i].mtype.kind = "DiffCounter"
        /\ xs[i].value > (IF i = 1 THEN prev ELSE xs[i - 1].value)

\* C9: a DiffCounter of value v and previous reading prev that merges a
\* DiffCounter of value r has value v + (r - prev) when r > prev and v + r
\* otherwise (also when r = prev), and previous reading r, whatever the previous
\* reading stored in the incoming metric; after strictly increasing readings
\* r1 < ... < rn, all above prev, the value is v + (rn - prev).
DiffCounterRule ==
    (Len(fold.xs) >= 1 /\ Start.mtype.kind = "DiffCounter") =>
        LET before == Unwrap(fold.before)
            new == fold.xs[Len(fold.xs)]
        IN /\ new.mtype.kind = "DiffCounter" =>
                 /\ Agg.value = DiffValue(before.value, before.mtype.previous, new.value)
                 /\ Agg.mtype.previous = new.value
           /\ Increasing(Start.mtype.previous, fold.xs) =>
                 Agg.value = Start.value + (new.value - Start.mtype.previous)

\* a reading above the previous one, then a reading equal to the previous one
DiffCounterRuleWitness ==
    /\ Len(fold.xs) = 2
    /\ Start = MetricNew(10, DiffCounter(1), None, None)
    /\ fold.xs[1] = MetricNew(10, DiffCounter(5), None, None)
    /\ fold.xs[2] = MetricNew(10, DiffCounter(1), None, None)
    /\ Unwrap(fold.before).mtype.previous = 10
    /\ Agg.value = 29
    /\ Agg.mtype.previous = 10

====
